---- MODULE Spec2Model ----
(***************************************************************************)
(* CosmosDbContainer (modules/cosmosdb/testcontainers/cosmosdb/__init__.py) *)
(* as a state machine: construction, configuration, start, the two-phase   *)
(* readiness wait of _connect (log marker, then HTTPS probe), the          *)
(* connection getters and stop.                                            *)
(*                                                                         *)
(* Strings the code inspects character by character (the container's       *)
(* stdout) are sequences of one-character strings; strings the code only   *)
(* passes around (environment values, host names) are TLA+ strings.        *)
(* Time is counted in whole seconds of the caller's thread.                *)
(***************************************************************************)
EXTENDS Integers, Sequences, FiniteSets, TLC

VARIABLES
    environ,          \* os.environ of the test process: variable name -> value or Unset
    pc,               \* per instance: where the caller's thread is in the object's life
    mode,             \* per instance: "direct" (c.start()) or "with" (with c as ...)
    argPartition,     \* per instance: the partition_count argument passed to __init__
    argIp,            \* per instance: the ip_address_override argument passed to __init__
    partition_count,  \* per instance: self.partition_count
    ip_address,       \* per instance: self.ip_address
    ports,            \* per instance: self.ports, a set of <<container port, host port>>
    env,              \* per instance: self.env, the container's environment
    timeout,          \* per instance: self.timeout, in seconds
    now,              \* per instance: time.time() on the caller's thread
    running,          \* per instance: the container runs and holds its host ports
    stdout,           \* per instance: the container's accumulated stdout, as characters
    logLines,         \* per instance: the lines the container wrote (what it meant to log)
    lineOpen,         \* per instance: the last line written has no line end yet
    written,          \* per instance: number of chunks the container has written
    seq_start,        \* per instance: time at entry to _connect
    start_time,       \* per instance: start_time of line 118
    error,            \* per instance: the exception that reached the caller of start()
    failCause,        \* per instance: why the runtime refused to start the container
    stops,            \* per instance: number of stop() calls
    markerSeen,       \* per instance: check_logs returned true in this start sequence
    logPolls,         \* per instance: number of check_logs evaluations in this start sequence
    probes,           \* per instance: number of HTTPS probes issued in this start sequence
    okAfterMarker,    \* per instance: a probe returned 200 after check_logs returned true
    lastCheck,        \* per instance: the last check_logs call: length of the stdout it read, result
    descriptor,       \* per instance: the last value a connection getter returned
    obtainedIn,       \* per instance: the readiness state in which it was returned
    image,            \* per instance: the image argument passed to __init__
    kwargs,           \* per instance: the value of a "port" keyword passed to __init__, or None
    warned,           \* per instance: __init__ logged the warning about the port keyword
    exited,           \* per instance: the container process ended by itself
    markerInTime,     \* per instance: a line ending in "Started" was written before the timeout
    lastStep,         \* per instance: the last step the caller's thread took inside start()
    lastOutcome,      \* per instance: the outcome of the last probe
    sleeps,           \* per instance: number of time.sleep(1) calls of the endpoint loop
    lastProbeEnd,     \* per instance: time at which the last probe returned
    probedUrl         \* per instance: the URL of the last requests.get

vars == << environ, pc, mode, argPartition, argIp, partition_count, ip_address, ports,
           env, timeout, now, running, stdout, logLines, lineOpen, written, seq_start,
           start_time,
           error, failCause, stops, markerSeen, logPolls, probes, okAfterMarker,
           lastCheck, descriptor, obtainedIn, image, kwargs, warned, exited, markerInTime,
           lastStep, lastOutcome, sleeps, lastProbeEnd, probedUrl >>

----------------------------------------------------------------------------
(* Bounds of the exploration *)

\* number of container instances of the two-instance specification
NumInst == 2
\* largest self.timeout explored, in seconds (the class default is 120.0)
MaxTimeout == 2
\* longest a single HTTPS probe takes, in seconds
MaxProbeTime == 1
\* longest the runtime takes to launch the container, in seconds
MaxLaunchTime == 1
\* number of chunks the container writes to its stdout
MaxChunks == 3
\* number of stop() calls explored per instance
MaxStops == 2

Inst == 1..NumInst

\* absent values: Python's None for an argument, a missing os.environ entry
None == "None"
Unset == "Unset"

----------------------------------------------------------------------------
(* Characters and strings *)

\* str -> sequence of characters, for the literals of the model
Started == << "S", "t", "a", "r", "t", "e", "d" >>
started == << "s", "t", "a", "r", "t", "e", "d" >>
init_ == << "i", "n", "i", "t" >>
loading == << "l", "o", "a", "d", "i", "n", "g" >>
Started_up == Started \o << " ", "u", "p" >>
up_Started == << "u", "p", " " >> \o Started
LF == << "\n" >>

Last(s) == s[Len(s)]

\* str.endswith(suffix)
endswith(s, suffix) ==
    /\ Len(s) >= Len(suffix)
    /\ SubSeq(s, Len(s) - Len(suffix) + 1, Len(s)) = suffix

\* str.splitlines(): lines are cut at "\n", "\r" and "\r\n"; the line ends are dropped
\* and a line end at the very end of the string opens no further (empty) line.
RECURSIVE splitFrom(_, _, _, _)
splitFrom(s, k, cur, acc) ==
    IF k > Len(s)
    THEN IF cur = << >> THEN acc ELSE Append(acc, cur)
    ELSE IF s[k] = "\r" /\ k < Len(s) /\ s[k + 1] = "\n"
    THEN splitFrom(s, k + 2, << >>, Append(acc, cur))
    ELSE IF s[k] \in { "\n", "\r" }
    THEN splitFrom(s, k + 1, << >>, Append(acc, cur))
    ELSE splitFrom(s, k + 1, Append(cur, s[k]), acc)

splitlines(s) == splitFrom(s, 1, << >>, << >>)

\* the mutant of check_logs used for C7: equality with the marker instead of endswith
check_logs_equal(out) ==
    IF out # << >> THEN Last(splitlines(out)) = Started ELSE FALSE

\* the mutant of check_logs used for C8: startswith instead of endswith
check_logs_startswith(out) ==
    IF out # << >>
    THEN LET l == Last(splitlines(out))
         IN  Len(l) >= Len(Started) /\ SubSeq(l, 1, Len(Started)) = Started
    ELSE FALSE

\* _connect.check_logs (lines 105-106)
check_logs(out) ==
    IF out # << >> THEN endswith(Last(splitlines(out)), Started) ELSE FALSE

----------------------------------------------------------------------------
(* Class attributes and the configuration of __init__ / _configure *)

PARTITION == "AZURE_COSMOS_EMULATOR_PARTITION_COUNT"
IPOVERRIDE == "AZURE_COSMOS_EMULATOR_IP_ADDRESS_OVERRIDE"
EnvNames == { PARTITION, IPOVERRIDE }
\* a variable of the caller's own, set with with_env before start()
CallerVar == "MY_SETTING"
ContainerEnvNames == EnvNames \cup { CallerVar }

\* the default of the image argument (line 70)
DefaultImage == "mcr.microsoft.com/cosmosdb/linux/azure-cosmos-emulator:latest"

\* class attributes (lines 63-66)
localhost == "localhost"
class_ip_address == "127.0.0.1"      \* socket.gethostbyname(localhost)
port == 8081
\* time.sleep(1) of line 126
SleepSeconds == 1
\* range(10250, 10256) of line 88
RangeFirst == 10250
RangeStop == 10256

\* Python truthiness of an Optional[str]
Truthy(v) == v # None /\ v # ""

\* os.environ.get(name, "")
environ_get(e, name) == IF e[name] # Unset THEN e[name] ELSE ""

\* mutant for C5: the environment variable is consulted first
partition_env_first(arg, e) ==
    IF e[PARTITION] # Unset THEN e[PARTITION] ELSE IF Truthy(arg) THEN arg ELSE ""

\* self.partition_count of lines 83-85
resolve_partition_count(arg, e) ==
    IF Truthy(arg) THEN arg ELSE environ_get(e, PARTITION)

\* self.ip_address of line 86; the right-hand self.ip_address is the class attribute
resolve_ip_address(arg, e) ==
    IF Truthy(arg) THEN arg ELSE class_ip_address

\* mutant for C10: every instance lets the runtime pick host ports of its own
bind_ports_per_instance(i) ==
    { << port, port + 100 * i >> }
        \cup { << p, p + 100 * i >> : p \in RangeFirst..(RangeStop - 1) }

\* mutant for C12: the range stops one port early
bind_ports_short(i) ==
    { << port, port >> } \cup { << p, p >> : p \in RangeFirst..(RangeStop - 2) }

\* the with_bind_ports calls of lines 87-89: <<container port, host port>>
bind_ports(i) ==
    { << port, port >> } \cup { << p, p >> : p \in RangeFirst..(RangeStop - 1) }

HostPorts(i) == { b[2] : b \in ports[i] }

\* mutant for C19: the partition count is written even when it is empty
configure_always(e, pcount, ip) ==
    [e EXCEPT ![PARTITION] = pcount, ![IPOVERRIDE] = ip]

\* _configure (lines 91-94) applied to the container environment e
configure(e, pcount, ip) ==
    LET e1 == IF Truthy(pcount) THEN [e EXCEPT ![PARTITION] = pcount] ELSE e
    IN  [e1 EXCEPT ![IPOVERRIDE] = ip]

\* mutant for C18: the URL is built from self.ip_address instead of self.localhost
url_from_ip_address(i) == "https://" \o ip_address[i] \o ":" \o ToString(port) \o "/"

\* get_connection_url (lines 101-102): f"https://{self.localhost}:{self.port}/";
\* no instance i assigns localhost or port, so both are the class attributes
get_connection_url(i) == "https://" \o localhost \o ":" \o ToString(port) \o "/"

\* get_account_key (lines 96-99)
get_account_key == "C2y6yDjf5/R+ob0N8A7Cgv30VRDJIWEHLM+4QDU5DE2nQ9nDuVTqobD4b8mGGyPMbIZnqyMsEcaGQy67XIw/Jw=="

\* mutant for C11: the client is built with TLS verification left on
client_verifying(i) ==
    [kind |-> "client", url |-> get_connection_url(i), credential |-> get_account_key,
     connection_verify |-> TRUE, retry_total |-> 3]

\* get_connection_client (lines 133-139): the arguments CosmosClient is built with
get_connection_client(i) ==
    [kind |-> "client", url |-> get_connection_url(i), credential |-> get_account_key,
     connection_verify |-> FALSE, retry_total |-> 3]

\* what a caller holds: nothing yet, or the URL string returned by get_connection_url
\* (the fields only a client has are left empty)
NoDescriptor ==
    [kind |-> "none", url |-> "", credential |-> "", connection_verify |-> TRUE,
     retry_total |-> 0]
UrlDescriptor(i) == [NoDescriptor EXCEPT !.kind = "url", !.url = get_connection_url(i)]

\* the URL probed on line 113
probe_url(i) == get_connection_url(i) \o "_explorer/emulator.pem"

----------------------------------------------------------------------------
(* Readiness *)

\* outcomes of requests.get: a response with a status code, or a RequestException
Response(status) == [raised |-> FALSE, status_code |-> status]
RequestException == [raised |-> TRUE, status_code |-> 0]
ProbeOutcomes == { Response(200), Response(503), RequestException }

\* mutant for C1: any HTTP response counts as success
any_response_is_success(outcome) == ~outcome.raised

\* wait_for_successful_request (lines 111-116)
wait_for_successful_request(outcome) ==
    IF outcome.raised THEN FALSE ELSE outcome.status_code = 200

\* mutant for C13: a RequestException is not caught and leaves start()
exception_propagates(outcome) ==
    IF outcome.raised THEN "raised"
    ELSE IF outcome.status_code = 200 THEN "ready" ELSE "sleep"

\* mutant for C16: a failed probe is retried at once, without the sleep
retry_without_sleep(outcome) ==
    IF wait_for_successful_request(outcome) THEN "ready" ELSE "deadline"

\* lines 124-126: break out of the loop (and return from start()) on success,
\* else time.sleep(1)
after_probe(outcome) ==
    IF wait_for_successful_request(outcome) THEN "ready" ELSE "sleep"

\* mutant for C9: the failure of the base start() is swallowed
connect_anyway(launched) == "wait_logs"

\* start (lines 128-131): _connect runs only when super().start() returned
after_super_start(launched) == IF launched THEN "wait_logs" ELSE "raised"

\* the readiness state of the specification, read off the position of start()
ReadinessState(i) ==
    CASE pc[i] \in { "none", "constructed" } -> "NotStarted"
      [] pc[i] \in { "wait_logs", "logs_sleep" } -> "WaitingForLogMarker"
      [] pc[i] \in { "deadline", "probe", "sleep", "blocked" } -> "WaitingForEndpoint"
      [] pc[i] = "ready" -> "Ready"
      [] pc[i] = "stopped" -> "Stopped"
      [] pc[i] = "raised" /\ error[i] = "TimeoutError" -> "TimedOut"
      [] OTHER -> "Failed"

----------------------------------------------------------------------------
(* Initial state: nothing constructed yet; the process environment is given *)

NoCheck == [len |-> -1, result |-> FALSE]

InitWith(environs) ==
    /\ environ \in environs
    /\ pc = [i \in Inst |-> "none"]
    /\ mode = [i \in Inst |-> "direct"]
    /\ argPartition = [i \in Inst |-> None]
    /\ argIp = [i \in Inst |-> None]
    /\ partition_count = [i \in Inst |-> ""]
    /\ ip_address = [i \in Inst |-> class_ip_address]
    /\ ports = [i \in Inst |-> { }]
    /\ env = [i \in Inst |-> [n \in ContainerEnvNames |-> Unset]]
    /\ timeout = [i \in Inst |-> 1]
    /\ now = [i \in Inst |-> 0]
    /\ running = [i \in Inst |-> FALSE]
    /\ stdout = [i \in Inst |-> << >>]
    /\ logLines = [i \in Inst |-> << >>]
    /\ lineOpen = [i \in Inst |-> FALSE]
    /\ written = [i \in Inst |-> 0]
    /\ seq_start = [i \in Inst |-> 0]
    /\ start_time = [i \in Inst |-> 0]
    /\ error = [i \in Inst |-> "none"]
    /\ failCause = [i \in Inst |-> "none"]
    /\ stops = [i \in Inst |-> 0]
    /\ markerSeen = [i \in Inst |-> FALSE]
    /\ logPolls = [i \in Inst |-> 0]
    /\ probes = [i \in Inst |-> 0]
    /\ okAfterMarker = [i \in Inst |-> FALSE]
    /\ lastCheck = [i \in Inst |-> NoCheck]
    /\ descriptor = [i \in Inst |-> NoDescriptor]
    /\ obtainedIn = [i \in Inst |-> None]
    /\ image = [i \in Inst |-> DefaultImage]
    /\ kwargs = [i \in Inst |-> None]
    /\ warned = [i \in Inst |-> FALSE]
    /\ exited = [i \in Inst |-> FALSE]
    /\ markerInTime = [i \in Inst |-> FALSE]
    /\ lastStep = [i \in Inst |-> "none"]
    /\ lastOutcome = [i \in Inst |-> RequestException]
    /\ sleeps = [i \in Inst |-> 0]
    /\ lastProbeEnd = [i \in Inst |-> 0]
    /\ probedUrl = [i \in Inst |-> ""]

configVars == << argPartition, argIp, partition_count, ip_address, ports, timeout,
                 image, kwargs, warned >>
logVars == << stdout, logLines, lineOpen, written, markerInTime >>
ghostVars == << markerSeen, logPolls, probes, okAfterMarker, lastCheck >>
getterVars == << descriptor, obtainedIn >>
traceVars == << lastStep, lastOutcome, sleeps, lastProbeEnd, probedUrl >>

----------------------------------------------------------------------------
(* Operations *)

\* CosmosDbContainer(image=img, partition_count=p, ip_address_override=a, port=kw),
\* then c.timeout = t (the class default of line 66 is 120.0 seconds; t is that value
\* scaled down). A port keyword is only warned about: self.port stays the class
\* attribute.
Construct(i, img, p, a, kw, t) ==
    /\ pc[i] = "none"
    /\ pc' = [pc EXCEPT ![i] = "constructed"]
    /\ image' = [image EXCEPT ![i] = img]
    /\ kwargs' = [kwargs EXCEPT ![i] = kw]
    /\ warned' = [warned EXCEPT ![i] = (kw # None)]
    /\ argPartition' = [argPartition EXCEPT ![i] = p]
    /\ argIp' = [argIp EXCEPT ![i] = a]
    /\ partition_count' = [partition_count EXCEPT ![i] = resolve_partition_count(p, environ)]
    /\ ip_address' = [ip_address EXCEPT ![i] = resolve_ip_address(a, environ)]
    /\ ports' = [ports EXCEPT ![i] = bind_ports(i)]
    /\ timeout' = [timeout EXCEPT ![i] = t]
    /\ UNCHANGED << environ, exited, mode, env, now, running, logVars, seq_start, start_time,
                    error, failCause, stops, ghostVars, getterVars, traceVars >>

\* c.with_env(name, v), called by the caller before start()
WithEnv(i, name, v) ==
    /\ pc[i] = "constructed"
    /\ env' = [env EXCEPT ![i][name] = v]
    /\ UNCHANGED << environ, exited, pc, mode, configVars, now, running, logVars, seq_start,
                    start_time, error, failCause, stops, ghostVars, getterVars, traceVars >>

\* start() up to the entry of _connect (lines 128-130), called directly or by the
\* with statement's __enter__. The base start() configures the container, then asks
\* the runtime to launch it; the launch takes d seconds and fails when the runtime
\* has a fault of its own or a requested host port is already bound.
Start(i, m, fault, d) ==
    /\ pc[i] = "constructed"
    /\ LET conflict == \E j \in Inst \ { i } :
                          running[j] /\ HostPorts(j) \cap HostPorts(i) # { }
           launched == ~fault /\ ~conflict
           next == after_super_start(launched)
       IN  /\ mode' = [mode EXCEPT ![i] = m]
           /\ env' = [env EXCEPT ![i] = configure(env[i], partition_count[i], ip_address[i])]
           /\ now' = [now EXCEPT ![i] = @ + d]
           /\ running' = [running EXCEPT ![i] = launched]
           /\ failCause' = [failCause EXCEPT ![i] =
                  IF launched THEN "none" ELSE IF conflict THEN "port_conflict" ELSE "runtime"]
           /\ pc' = [pc EXCEPT ![i] = next]
           /\ error' = [error EXCEPT ![i] = IF next = "raised" THEN "StartupError" ELSE "none"]
           /\ seq_start' = [seq_start EXCEPT ![i] = now[i] + d]
    /\ UNCHANGED << environ, exited, configVars, logVars, start_time, stops, ghostVars,
                    getterVars, traceVars >>

\* the container process writes a chunk to its stdout: the text l and the line end
\* term (none: the line stays open and the next chunk continues it)
Write(i, l, term) ==
    /\ running[i]
    /\ written[i] < MaxChunks
    /\ l # << >> \/ term # << >>
    /\ written' = [written EXCEPT ![i] = @ + 1]
    /\ stdout' = [stdout EXCEPT ![i] = @ \o l \o term]
    /\ logLines' = [logLines EXCEPT ![i] =
           IF lineOpen[i] THEN [@ EXCEPT ![Len(@)] = @ \o l] ELSE Append(@, l)]
    /\ lineOpen' = [lineOpen EXCEPT ![i] = (term = << >>)]
    /\ markerInTime' = [markerInTime EXCEPT ![i] =
           @ \/ ( /\ term # << >>
                  /\ endswith(Last(logLines'[i]), Started)
                  /\ pc[i] \in { "wait_logs", "logs_sleep" }
                  /\ now[i] - seq_start[i] < timeout[i] )]
    /\ UNCHANGED << environ, exited, pc, mode, configVars, env, now, running, seq_start,
                    start_time, error, failCause, stops, ghostVars, getterVars, traceVars >>

\* the container process ends by itself while start() waits for it: its ports close
\* and it writes nothing more
Exit(i) ==
    /\ running[i]
    /\ pc[i] \in { "wait_logs", "logs_sleep", "deadline", "probe", "sleep" }
    /\ running' = [running EXCEPT ![i] = FALSE]
    /\ exited' = [exited EXCEPT ![i] = TRUE]
    /\ UNCHANGED << environ, pc, mode, configVars, env, now, logVars, seq_start, start_time,
                    error, failCause, stops, ghostVars, getterVars, traceVars >>

\* one iteration of wait_for_logs(self, check_logs, timeout=self.timeout) (line 109):
\* read the logs and evaluate the predicate; return when it holds, raise TimeoutError
\* when the wait has lasted longer than the timeout, else sleep one interval.
\* On return line 118 takes start_time.
PollLogs(i) ==
    /\ pc[i] = "wait_logs"
    /\ LET result == check_logs(stdout[i])
           late == now[i] - seq_start[i] > timeout[i]
       IN  /\ lastCheck' = [lastCheck EXCEPT ![i] = [len |-> Len(stdout[i]), result |-> result]]
           /\ logPolls' = [logPolls EXCEPT ![i] = @ + 1]
           /\ markerSeen' = [markerSeen EXCEPT ![i] = @ \/ result]
           /\ pc' = [pc EXCEPT ![i] =
                  IF result THEN "deadline" ELSE IF late THEN "raised" ELSE "logs_sleep"]
           /\ error' = [error EXCEPT ![i] =
                  IF ~result /\ late THEN "TimeoutError" ELSE @]
           /\ start_time' = [start_time EXCEPT ![i] = IF result THEN now[i] ELSE @]
    /\ lastStep' = [lastStep EXCEPT ![i] = "poll"]
    /\ UNCHANGED << environ, exited, mode, configVars, env, now, running, logVars, seq_start,
                    failCause, stops, probes, okAfterMarker, getterVars,
                    lastOutcome, sleeps, lastProbeEnd, probedUrl >>

\* the sleep between two iterations of wait_for_logs
LogsSleep(i) ==
    /\ pc[i] = "logs_sleep"
    /\ now' = [now EXCEPT ![i] = @ + SleepSeconds]
    /\ pc' = [pc EXCEPT ![i] = "wait_logs"]
    /\ lastStep' = [lastStep EXCEPT ![i] = "logs_sleep"]
    /\ UNCHANGED << environ, exited, mode, configVars, env, running, logVars, seq_start,
                    start_time, error, failCause, stops, ghostVars, getterVars,
                    lastOutcome, sleeps, lastProbeEnd, probedUrl >>

\* lines 121-123: the deadline check at the head of the endpoint loop
CheckDeadline(i) ==
    /\ pc[i] = "deadline"
    /\ LET duration == now[i] - start_time[i]
       IN  IF duration > timeout[i]
           THEN /\ pc' = [pc EXCEPT ![i] = "raised"]
                /\ error' = [error EXCEPT ![i] = "TimeoutError"]
           ELSE /\ pc' = [pc EXCEPT ![i] = "probe"]
                /\ UNCHANGED error
    /\ lastStep' = [lastStep EXCEPT ![i] = "check"]
    /\ UNCHANGED << environ, exited, mode, configVars, env, now, running, logVars, seq_start,
                    start_time, failCause, stops, ghostVars, getterVars,
                    lastOutcome, sleeps, lastProbeEnd, probedUrl >>

\* lines 124-125 and 130-131: one probe of /_explorer/emulator.pem, which takes d
\* seconds and ends with outcome; on success the loop breaks and start() returns self.
\* Once the container has exited nothing listens on its port: the request fails.
Probe(i, outcome, d) ==
    /\ pc[i] = "probe"
    /\ exited[i] => outcome = RequestException
    /\ LET next == after_probe(outcome)
       IN  /\ pc' = [pc EXCEPT ![i] = next]
           /\ error' = [error EXCEPT ![i] = IF next = "raised" THEN "RequestException" ELSE @]
    /\ okAfterMarker' = [okAfterMarker EXCEPT ![i] =
           @ \/ (markerSeen[i] /\ ~outcome.raised /\ outcome.status_code = 200)]
    /\ probes' = [probes EXCEPT ![i] = @ + 1]
    /\ now' = [now EXCEPT ![i] = @ + d]
    /\ lastStep' = [lastStep EXCEPT ![i] = "probe"]
    /\ lastOutcome' = [lastOutcome EXCEPT ![i] = outcome]
    /\ lastProbeEnd' = [lastProbeEnd EXCEPT ![i] = now[i] + d]
    /\ probedUrl' = [probedUrl EXCEPT ![i] = probe_url(i)]
    /\ UNCHANGED << environ, exited, mode, configVars, env, running, logVars, seq_start,
                    start_time, failCause, stops, markerSeen, logPolls, lastCheck,
                    getterVars, sleeps >>

\* line 113 against an endpoint that accepts the connection and never answers:
\* requests.get is called without a timeout argument and does not return
ProbeHangs(i) ==
    /\ pc[i] = "probe"
    /\ ~exited[i]
    /\ pc' = [pc EXCEPT ![i] = "blocked"]
    /\ probes' = [probes EXCEPT ![i] = @ + 1]
    /\ lastStep' = [lastStep EXCEPT ![i] = "probe"]
    /\ probedUrl' = [probedUrl EXCEPT ![i] = probe_url(i)]
    /\ UNCHANGED << environ, exited, mode, configVars, env, now, running, logVars, seq_start,
                    start_time, error, failCause, stops, markerSeen, logPolls, lastCheck,
                    okAfterMarker, getterVars, lastOutcome, sleeps, lastProbeEnd >>

\* line 126: time.sleep(1)
Sleep(i) ==
    /\ pc[i] = "sleep"
    /\ now' = [now EXCEPT ![i] = @ + SleepSeconds]
    /\ pc' = [pc EXCEPT ![i] = "deadline"]
    /\ sleeps' = [sleeps EXCEPT ![i] = @ + 1]
    /\ lastStep' = [lastStep EXCEPT ![i] = "sleep"]
    /\ UNCHANGED << environ, exited, mode, configVars, env, running, logVars, seq_start,
                    start_time, error, failCause, stops, ghostVars, getterVars,
                    lastOutcome, lastProbeEnd, probedUrl >>

\* stop(): called by the caller after a successful start, or by the with statement's
\* __exit__ when the block is left; a repeated call finds nothing to stop.
\* The with statement calls __exit__ only when __enter__ has returned.
Stop(i) ==
    /\ pc[i] \in { "ready", "stopped" }
    /\ stops[i] < MaxStops
    /\ mode[i] = "with" => pc[i] = "ready"
    /\ pc' = [pc EXCEPT ![i] = "stopped"]
    /\ running' = [running EXCEPT ![i] = FALSE]
    /\ stops' = [stops EXCEPT ![i] = @ + 1]
    /\ UNCHANGED << environ, exited, mode, configVars, env, now, logVars, seq_start,
                    start_time, error, failCause, ghostVars, getterVars, traceVars >>

\* the caller reads get_connection_url() or get_connection_client() from an object
\* it holds, in whatever state that object is (the thread is not inside start())
GetConnection(i, which) ==
    /\ pc[i] \in { "constructed", "ready", "raised", "stopped" }
    /\ descriptor' = [descriptor EXCEPT ![i] =
           IF which = "url" THEN UrlDescriptor(i) ELSE get_connection_client(i)]
    /\ obtainedIn' = [obtainedIn EXCEPT ![i] = ReadinessState(i)]
    /\ UNCHANGED << environ, exited, pc, mode, configVars, env, now, running, logVars,
                    seq_start, start_time, error, failCause, stops, ghostVars, traceVars >>

----------------------------------------------------------------------------
(* Inputs *)

Images == { DefaultImage, "cosmos-emulator:custom" }
PartitionArgs == { None, "", "2" }
IpArgs == { None, "", "10.0.0.2" }
PortKeywords == { None, "9999" }
Timeouts == 1..MaxTimeout
Environs == [EnvNames -> { Unset, "4" }] \cup { [n \in EnvNames |-> ""] }
NoEnviron == [n \in EnvNames |-> Unset]
Modes == { "direct", "with" }
LaunchTimes == 0..MaxLaunchTime
ProbeTimes == 0..MaxProbeTime

\* what the container writes in the lifecycle specification
PlainLines == { init_, Started }
\* what it writes in the specification of the log check
LogVocabulary == { << >>, init_, loading, Started, started, Started_up, up_Started }
LineEnds == { LF, << >> }

----------------------------------------------------------------------------
(* Specifications *)

\* the steps the caller's thread takes inside start() on instance i
ThreadStep(i) ==
    \/ PollLogs(i)
    \/ LogsSleep(i)
    \/ CheckDeadline(i)
    \/ \E o \in ProbeOutcomes, d \in ProbeTimes : Probe(i, o, d)
    \/ Sleep(i)

\* the steps of start(), stop() and the getters on instance i
Lifecycle(i) ==
    \/ \E m \in Modes, fault \in BOOLEAN, d \in LaunchTimes : Start(i, m, fault, d)
    \/ PollLogs(i)
    \/ LogsSleep(i)
    \/ CheckDeadline(i)
    \/ \E o \in ProbeOutcomes, d \in ProbeTimes : Probe(i, o, d)
    \/ ProbeHangs(i)
    \/ Sleep(i)
    \/ Stop(i)
    \/ \E which \in { "url", "client" } : GetConnection(i, which)

\* one container object, constructed with its defaults, through its whole life
Init == InitWith({ NoEnviron })

Next ==
    \/ \E t \in Timeouts : Construct(1, DefaultImage, None, None, None, t)
    \/ \E l \in PlainLines : Write(1, l, LF)
    \/ Exit(1)
    \/ Lifecycle(1)

Spec == Init /\ [][Next]_vars

\* one container object under every configuration, started on a container that
\* writes at most its marker line and answers every probe at once
InitConfig == InitWith(Environs)

NextConfig ==
    \/ \E img \in Images, p \in PartitionArgs, a \in IpArgs, kw \in PortKeywords :
           Construct(1, img, p, a, kw, 1)
    \/ WithEnv(1, CallerVar, "x")
    \/ \E m \in Modes, fault \in BOOLEAN : Start(1, m, fault, 0)
    \/ written[1] = 0 /\ Write(1, Started, LF)
    \/ PollLogs(1)
    \/ LogsSleep(1)
    \/ CheckDeadline(1)
    \/ \E o \in ProbeOutcomes : Probe(1, o, 0)
    \/ Sleep(1)
    \/ \E which \in { "url", "client" } : GetConnection(1, which)

SpecConfig == InitConfig /\ [][NextConfig]_vars

\* one container object in its log-marker wait, under every log content; the check
\* of the log does not read the timeout, which is the shortest one here
InitLogs == InitWith({ NoEnviron })

NextLogs ==
    \/ Construct(1, DefaultImage, None, None, None, 1)
    \/ Start(1, "direct", FALSE, 0)
    \/ \E l \in LogVocabulary, term \in LineEnds : Write(1, l, term)
    \/ PollLogs(1)
    \/ LogsSleep(1)

SpecLogs == InitLogs /\ [][NextLogs]_vars

\* two container objects on one host, each writing at most its marker line
InitTwo == InitWith({ NoEnviron })

NextTwo ==
    \E i \in Inst :
        \/ Construct(i, DefaultImage, None, None, None, 1)
        \/ written[i] = 0 /\ Write(i, Started, LF)
        \/ \E fault \in BOOLEAN : Start(i, "direct", fault, 0)
        \/ PollLogs(i)
        \/ LogsSleep(i)
        \/ CheckDeadline(i)
        \/ \E o \in ProbeOutcomes : Probe(i, o, 0)
        \/ Sleep(i)
        \/ Stop(i)

SpecTwo == InitTwo /\ [][NextTwo]_vars

----------------------------------------------------------------------------
(* Properties *)

\* instance i has returned from start() with the container ready
IsReady(i) == pc[i] \in { "ready", "stopped" }
\* a TimeoutError has reached the caller of start() on instance i
TimedOut(i) == pc[i] = "raised" /\ error[i] = "TimeoutError"
\* the last check_logs call of instance i read the stdout as it is now
CheckedNow(i) == lastCheck[i].len = Len(stdout[i])

\* C1: start() returns the container only after check_logs has returned true at
\* least once and, after that, a probe of /_explorer/emulator.pem has returned 200.
T_C1 ==
    \A i \in Inst :
        IsReady(i) => /\ markerSeen[i] /\ logPolls[i] >= 1
                      /\ okAfterMarker[i] /\ probes[i] >= 1

\* C1 witness: a start that became ready after a failed log check and a failed probe
W_C1 == \E i \in Inst : pc[i] = "ready" /\ logPolls[i] >= 2 /\ probes[i] >= 2

\* C2 (as claimed): when the TimeoutError of a readiness wait has reached the caller
\* of start(), stop() has been invoked exactly once on the started container, which
\* no longer runs.
CE_C2 ==
    \A i \in Inst :
        TimedOut(i) => stops[i] = 1 /\ ~running[i]

\* C3 (as claimed): the TimeoutError is raised when the time since the entry to
\* _connect exceeds the timeout, by at most one sleep and one probe.
CE_C3 ==
    \A i \in Inst :
        TimedOut(i) =>
            /\ now[i] - seq_start[i] > timeout[i]
            /\ now[i] - seq_start[i] <= timeout[i] + SleepSeconds + MaxProbeTime

\* C4 (as claimed): a connection URL or client is handed out only in state Ready.
CE_C4 ==
    \A i \in Inst : descriptor[i].kind # "none" => obtainedIn[i] = "Ready"

\* C5 (as claimed): every explicitly passed partition_count, the empty string
\* included, is the resolved one; without an argument the environment variable's
\* value is, and the empty string when it is not set.
CE_C5 ==
    \A i \in Inst :
        pc[i] # "none" =>
            /\ argPartition[i] # None => partition_count[i] = argPartition[i]
            /\ argPartition[i] = None /\ environ[PARTITION] # Unset
                   => partition_count[i] = environ[PARTITION]
            /\ argPartition[i] = None /\ environ[PARTITION] = Unset
                   => partition_count[i] = ""

\* C5 (amended): a non-empty explicit partition_count is the resolved one whatever
\* the environment holds; with no argument or an empty one, the environment
\* variable's value is, and the empty string when it is not set.
T_C5 ==
    \A i \in Inst :
        pc[i] # "none" =>
            /\ argPartition[i] \notin { None, "" } => partition_count[i] = argPartition[i]
            /\ argPartition[i] \in { None, "" } /\ environ[PARTITION] # Unset
                   => partition_count[i] = environ[PARTITION]
            /\ argPartition[i] \in { None, "" } /\ environ[PARTITION] = Unset
                   => partition_count[i] = ""

\* C5 witness: an explicit value and a different environment value, the explicit one kept
W_C5 ==
    \E i \in Inst :
        /\ pc[i] # "none" /\ argPartition[i] = "2" /\ environ[PARTITION] = "4"
        /\ partition_count[i] = "2"

\* C6 (as claimed): with no ip_address_override argument and the environment variable
\* AZURE_COSMOS_EMULATOR_IP_ADDRESS_OVERRIDE set, _configure writes the environment
\* variable's value into the container's environment.
CE_C6 ==
    \A i \in Inst :
        pc[i] \notin { "none", "constructed" } /\ argIp[i] = None
            /\ environ[IPOVERRIDE] # Unset
        => env[i][IPOVERRIDE] = environ[IPOVERRIDE]

\* C7: check_logs is true exactly when the output is non-empty and the last line
\* the container wrote ends with "Started" (case-sensitive): false after init, false
\* after init and loading, true after init, loading and Started, false for no output
\* and for a last line "started".
T_C7 ==
    \A i \in Inst :
        (lastCheck[i].len >= 0 /\ CheckedNow(i)) =>
            /\ lastCheck[i].result
                   <=> (logLines[i] # << >> /\ endswith(Last(logLines[i]), Started))
            /\ stdout[i] = << >> => ~lastCheck[i].result
            /\ logLines[i] = << init_ >> => ~lastCheck[i].result
            /\ logLines[i] = << init_, loading >> => ~lastCheck[i].result
            /\ logLines[i] = << init_, loading, Started >> => lastCheck[i].result
            /\ (logLines[i] # << >> /\ Last(logLines[i]) = started) => ~lastCheck[i].result

\* C7 witness: the third check of a log that grew to init, loading, Started is true
W_C7 ==
    \E i \in Inst :
        /\ logLines[i] = << init_, loading, Started >>
        /\ CheckedNow(i) /\ lastCheck[i].result /\ logPolls[i] >= 3

\* C8 (as claimed): check_logs is true for a log whose only line is "Started up".
CE_C8 ==
    \A i \in Inst :
        (CheckedNow(i) /\ logLines[i] = << Started_up >>) => lastCheck[i].result

\* C8 (amended): check_logs is false for a log whose only line is "Started up", and
\* true for one whose only line is "up Started": the marker must end the line.
T_C8 ==
    \A i \in Inst :
        CheckedNow(i) =>
            /\ logLines[i] = << Started_up >> => ~lastCheck[i].result
            /\ logLines[i] = << up_Started >> => lastCheck[i].result

\* C8 witness: the log "Started up" has been checked and the check was false
W_C8 ==
    \E i \in Inst :
        /\ CheckedNow(i) /\ logLines[i] = << Started_up >> /\ ~lastCheck[i].result
        /\ pc[i] = "logs_sleep"

\* C9: when the base start() raises, start() raises at once: no log check and no
\* probe happens in that start sequence.
T_C9 ==
    \A i \in Inst :
        failCause[i] # "none" =>
            /\ pc[i] = "raised" /\ error[i] = "StartupError"
            /\ logPolls[i] = 0 /\ probes[i] = 0 /\ ~markerSeen[i]

\* C9 witness: a start the runtime refused
W_C9 == \E i \in Inst : failCause[i] = "runtime" /\ pc[i] = "raised"

\* C10 (as claimed): the start of one instance never fails because of another
\* instance's port reservations.
CE_C10 == \A i \in Inst : failCause[i] # "port_conflict"

\* C10 (amended): all instances reserve the same host ports, so no two of them run
\* at the same time, and a start whose launch met a port conflict was refused
\* before any readiness check.
T_C10 ==
    \A i \in Inst : \A j \in Inst \ { i } :
        /\ (pc[i] # "none" /\ pc[j] # "none") => HostPorts(i) = HostPorts(j)
        /\ ~(running[i] /\ running[j])
        /\ failCause[i] = "port_conflict" =>
               (pc[i] = "raised" /\ error[i] = "StartupError" /\ logPolls[i] = 0)

\* C10 witness: one instance runs and the other's start was refused for its ports
W_C10 ==
    \E i \in Inst : \E j \in Inst \ { i } :
        running[j] /\ failCause[i] = "port_conflict"

\* C11: whatever the constructor was given, the client a caller obtains is built
\* with the URL https://localhost:8081/ that get_connection_url() returns, with TLS
\* certificate verification disabled and with the fixed emulator account key as its
\* credential; the key is the same for every instance and in every state.
T_C11 ==
    \A i \in Inst :
        descriptor[i].kind = "client" =>
            /\ descriptor[i].url = get_connection_url(i)
            /\ descriptor[i].url = "https://localhost:8081/"
            /\ descriptor[i].connection_verify = FALSE
            /\ descriptor[i].credential =
                   "C2y6yDjf5/R+ob0N8A7Cgv30VRDJIWEHLM+4QDU5DE2nQ9nDuVTqobD4b8mGGyPMbIZnqyMsEcaGQy67XIw/Jw=="

\* C11 witness: a client obtained after a successful start of a container built
\* with a partition count, an address override and an image of the caller's own
W_C11 ==
    \E i \in Inst :
        /\ descriptor[i].kind = "client" /\ obtainedIn[i] = "Ready"
        /\ argPartition[i] = "2" /\ argIp[i] = "10.0.0.2" /\ image[i] # DefaultImage

\* C12: once constructed, a container's port bindings are exactly the API port 8081
\* and the six ports 10250..10255, each bound to the host port of the same number.
T_C12 ==
    \A i \in Inst :
        pc[i] # "none" =>
            /\ ports[i] = { << 8081, 8081 >>, << 10250, 10250 >>, << 10251, 10251 >>,
                            << 10252, 10252 >>, << 10253, 10253 >>, << 10254, 10254 >>,
                            << 10255, 10255 >> }
            /\ Cardinality({ b \in ports[i] : b[1] # 8081 }) = 6

\* C12 witness: a container constructed with a port keyword and an address override,
\* then started
W_C12 ==
    \E i \in Inst :
        /\ pc[i] = "ready" /\ kwargs[i] # None /\ argIp[i] = "10.0.0.2"
        /\ ports[i] # { }

\* C13: in the endpoint phase a probe that raised a request exception or returned a
\* status other than 200 surfaces no error: the step that ends the probe leaves the
\* error untouched and goes to the sleep (still WaitingForEndpoint) unless the probe
\* returned 200 (Ready); the sleep leads to the deadline check, the deadline check to
\* the next probe or to the TimeoutError; and any error that reaches the caller
\* after the log marker was seen is the TimeoutError.
T_C13 ==
    /\ [](\A i \in Inst : (pc[i] = "raised" /\ markerSeen[i]) => error[i] = "TimeoutError")
    /\ [][\A i \in Inst :
            /\ (pc[i] = "probe" /\ pc'[i] # "probe") =>
                   /\ error'[i] = error[i]
                   /\ ReadinessState(i)' \in { "WaitingForEndpoint", "Ready" }
                   /\ pc'[i] = "ready" =>
                          (~lastOutcome'[i].raised /\ lastOutcome'[i].status_code = 200)
                   /\ (pc'[i] # "blocked"
                         /\ (lastOutcome'[i].raised \/ lastOutcome'[i].status_code # 200))
                          => pc'[i] = "sleep"
            /\ (pc[i] = "sleep" /\ pc'[i] # "sleep") => pc'[i] = "deadline"
            /\ (pc[i] = "deadline" /\ pc'[i] # "deadline") =>
                   \/ pc'[i] = "probe"
                   \/ pc'[i] = "raised" /\ error'[i] = "TimeoutError"
       ]_vars

\* C13 witness: a further probe is about to be issued after one that raised a
\* request exception, and no error has been surfaced
W_C13 ==
    \E i \in Inst :
        /\ pc[i] = "probe" /\ probes[i] >= 1 /\ error[i] = "none"
        /\ lastOutcome[i] = RequestException

\* C14 (as claimed, in the endpoint phase): when the container has exited while
\* start() was waiting for the endpoint, the start sequence ends in Failed and not
\* in TimedOut.
CE_C14 ==
    \A i \in Inst :
        (exited[i] /\ markerSeen[i] /\ pc[i] = "raised") => ReadinessState(i) = "Failed"

\* C15 (as claimed): the readiness loop cannot block indefinitely: whenever the
\* caller's thread is inside start(), whatever the container and the endpoint do, it
\* has a next step to take (a check, a probe that ends, or a sleep) towards returning
\* or raising.
CE_C15 ==
    \A i \in Inst :
        ReadinessState(i) \in { "WaitingForLogMarker", "WaitingForEndpoint" }
            => ENABLED ThreadStep(i)

\* C16: in the endpoint phase every probe directly follows a deadline check; a failed
\* probe is followed by exactly one sleep of one second and then the deadline check,
\* so the next probe starts one second after the previous one ended; a successful
\* probe is followed by no sleep and no further probe; and a timeout of the endpoint
\* phase comes from a deadline check that follows the sleep after at least one probe.
T_C16 ==
    \A i \in Inst :
        /\ pc[i] = "probe" =>
               /\ lastStep[i] = "check" /\ sleeps[i] = probes[i]
               /\ probes[i] >= 1 => now[i] = lastProbeEnd[i] + 1
        /\ pc[i] = "deadline" =>
               /\ lastStep[i] \in { "poll", "sleep" } /\ sleeps[i] = probes[i]
               /\ lastStep[i] = "poll" <=> probes[i] = 0
        /\ pc[i] = "sleep" =>
               /\ lastStep[i] = "probe" /\ sleeps[i] = probes[i] - 1
               /\ lastOutcome[i].raised \/ lastOutcome[i].status_code # 200
        /\ IsReady(i) =>
               /\ lastStep[i] = "probe" /\ sleeps[i] = probes[i] - 1
               /\ ~lastOutcome[i].raised /\ lastOutcome[i].status_code = 200
        /\ (TimedOut(i) /\ markerSeen[i]) =>
               /\ lastStep[i] = "check" /\ probes[i] >= 1 /\ sleeps[i] = probes[i]
               /\ now[i] - start_time[i] > timeout[i]

\* C16 witness: an endpoint phase that timed out after two probes and two sleeps
W_C16 ==
    \E i \in Inst :
        TimedOut(i) /\ markerSeen[i] /\ probes[i] = 2 /\ sleeps[i] = 2

\* C17 (as claimed): a start sequence whose container stayed up and wrote a complete
\* line ending in "Started" before the timeout does not time out waiting for the log
\* marker, whatever the container wrote after that line.
CE_C17 ==
    \A i \in Inst :
        (TimedOut(i) /\ ~markerSeen[i] /\ ~exited[i]) => ~markerInTime[i]

\* C18: the connection URL is the constant https://localhost:8081/ and the probed
\* URL the constant https://localhost:8081/_explorer/emulator.pem: whatever
\* ip_address_override, partition_count, image or port keyword the constructor was
\* given and whatever lifecycle operation has run, get_connection_url() returns that
\* value, every URL or client handed out carries it, every probe went to that
\* endpoint, and no step changes it.
T_C18 ==
    /\ [](\A i \in Inst :
            /\ get_connection_url(i) = "https://localhost:8081/"
            /\ descriptor[i].kind # "none" => descriptor[i].url = "https://localhost:8081/"
            /\ probes[i] >= 1 =>
                   probedUrl[i] = "https://localhost:8081/_explorer/emulator.pem")
    /\ [][\A i \in Inst : get_connection_url(i)' = get_connection_url(i)]_vars

\* C18 witness: a container built with an address override and a port keyword was
\* probed and started, its environment carries the override, and its URL was read
W_C18 ==
    \E i \in Inst :
        /\ argIp[i] = "10.0.0.2" /\ kwargs[i] = "9999" /\ warned[i]
        /\ env[i][IPOVERRIDE] = "10.0.0.2"
        /\ pc[i] = "ready" /\ probes[i] >= 1 /\ descriptor[i].kind = "url"

\* C19: the configuration step of start() sets AZURE_COSMOS_EMULATOR_PARTITION_COUNT
\* to the resolved partition count if and only if that count is non-empty, always
\* sets AZURE_COSMOS_EMULATOR_IP_ADDRESS_OVERRIDE to the resolved address, and
\* changes no other entry of the container environment and no port binding.
T_C19 ==
    /\ [](\A i \in Inst :
            pc[i] \notin { "none", "constructed" } =>
                /\ env[i][IPOVERRIDE] = ip_address[i]
                /\ env[i][PARTITION] # Unset <=> partition_count[i] # ""
                /\ env[i][PARTITION] # Unset => env[i][PARTITION] = partition_count[i])
    /\ [][\A i \in Inst :
            (pc[i] = "constructed" /\ pc'[i] # "constructed") =>
                /\ env'[i][IPOVERRIDE] = ip_address[i]
                /\ partition_count[i] # "" => env'[i][PARTITION] = partition_count[i]
                /\ partition_count[i] = "" => env'[i][PARTITION] = env[i][PARTITION]
                /\ \A n \in ContainerEnvNames \ { PARTITION, IPOVERRIDE } :
                       env'[i][n] = env[i][n]
                /\ ports'[i] = ports[i]
       ]_vars

\* C19 witness: a started container with an empty resolved partition count and an
\* environment entry of the caller's own: the entry is kept, the partition variable
\* is not set and the address override is the default address
W_C19 ==
    \E i \in Inst :
        /\ pc[i] \notin { "none", "constructed" }
        /\ partition_count[i] = "" /\ env[i][PARTITION] = Unset
        /\ env[i][CallerVar] = "x" /\ env[i][IPOVERRIDE] = "127.0.0.1"

====
